---- MODULE Spec2Model ----
(***************************************************************************)
(* MPIN strength checker (src/mpin_notebook.ipynb).                        *)
(*                                                                         *)
(* A Python str is modelled as the sequence of its Unicode code points,    *)
(* so that str.isdigit, str.strip, str.lower, the format specs 02d / 04d,  *)
(* string concatenation, string comparison and strptime are computed on    *)
(* characters as the interpreter computes them.  A datetime.date is the    *)
(* record [year, month, day]; None in a date position is NoDate.           *)
(***************************************************************************)
EXTENDS Integers, Sequences, FiniteSets, TLC

VARIABLES
    COMMONLY_USED_4_DIGIT_PINS, \* module global, notebook line 35
    COMMONLY_USED_6_DIGIT_PINS, \* module global, notebook line 43
    mpin,                       \* argument of the last check_mpin_strength call
    demographics,               \* argument of the last check_mpin_strength call
    outcome,                    \* what the last check_mpin_strength call did
    first,                      \* a caller's record of an earlier call and its outcome
    date_obj,                   \* argument of the last _generate_demographic_pins call
    length,                     \* argument of the last _generate_demographic_pins call
    pins,                       \* set returned by the last _generate_demographic_pins call
    pc,                         \* run_interactive_checker: the input() it is blocked in
    loop_mpin,                  \* run_interactive_checker: its local mpin (line 227)
    user_demographics,          \* run_interactive_checker: dates read so far in this round
    last_input,                 \* run_interactive_checker: the line last typed
    printed                     \* run_interactive_checker: messages printed by the last step

vars == << COMMONLY_USED_4_DIGIT_PINS, COMMONLY_USED_6_DIGIT_PINS, mpin, demographics,
           outcome, first, date_obj, length, pins, pc, loop_mpin, user_demographics,
           last_input, printed >>

core_vars == << mpin, demographics, outcome >>
gen_vars == << date_obj, length, pins >>
loop_vars == << pc, loop_mpin, user_demographics, last_input, printed >>
table_vars == << COMMONLY_USED_4_DIGIT_PINS, COMMONLY_USED_6_DIGIT_PINS >>

(***************************************************************************)
(* Bounds of the checked input space.                                      *)
(***************************************************************************)
\* Pins "", "1", "11", ... of every length up to MaxPinLen are tried.
MaxPinLen == 7
\* The first NumDates entries of SampleDates may be supplied as demographics.
NumDates == 3

(***************************************************************************)
(* Characters and the str methods the program uses.                        *)
(***************************************************************************)
\* Code points with Unicode category Nd among the characters the inputs use:
\* ASCII 0-9, ARABIC-INDIC DIGIT ZERO..NINE, FULLWIDTH DIGIT ZERO..NINE.
DecimalChars == (48..57) \cup (1632..1641) \cup (65296..65305)

\* Code points with Numeric_Type=Digit that are not decimal: SUPERSCRIPT
\* TWO, THREE, ONE. str.isdigit accepts them, \d and int() do not.
SuperscriptChars == {178, 179, 185}

\* c.isdigit() for a single character.
char_isdigit(c) == c \in DecimalChars \cup SuperscriptChars

\* The digit value int() gives a decimal character.
char_value(c) ==
    IF c \in 48..57 THEN c - 48
    ELSE IF c \in 1632..1641 THEN c - 1632
    ELSE c - 65296

\* s.isdigit(): every character is a digit and there is at least one.
str_isdigit(s) == Len(s) > 0 /\ \A i \in 1..Len(s) : char_isdigit(s[i])

\* c.isspace() for the characters the inputs use (tab..CR, FS..US, space).
char_isspace(c) == c \in (9..13) \cup (28..32)

\* s.strip(): leading and trailing whitespace removed.
RECURSIVE str_lstrip(_)
str_lstrip(s) ==
    IF Len(s) > 0 /\ char_isspace(s[1]) THEN str_lstrip(Tail(s)) ELSE s

RECURSIVE str_rstrip(_)
str_rstrip(s) ==
    IF Len(s) > 0 /\ char_isspace(s[Len(s)])
    THEN str_rstrip(SubSeq(s, 1, Len(s) - 1))
    ELSE s

str_strip(s) == str_rstrip(str_lstrip(s))

\* s.lower() for the characters the inputs use: A-Z map to a-z.
str_lower(s) == [i \in 1..Len(s) |-> IF s[i] \in 65..90 THEN s[i] + 32 ELSE s[i]]

\* str(n) for n >= 0.
RECURSIVE int_str(_)
int_str(n) == IF n < 10 THEN << 48 + n >> ELSE int_str(n \div 10) \o << 48 + (n % 10) >>

\* Left-pads with "0" up to a minimum width; a longer string is kept whole.
RECURSIVE zero_fill(_, _)
zero_fill(s, width) == IF Len(s) >= width THEN s ELSE zero_fill(<< 48 >> \o s, width)

format_0d_unpadded(n, width) == int_str(n)

\* f"{n:0<width>d}" for n >= 0.
format_0d(n, width) == zero_fill(int_str(n), width)

\* a < b for Python strings: lexicographic by code point.
RECURSIVE str_less(_, _)
str_less(a, b) ==
    IF Len(b) = 0 THEN FALSE
    ELSE IF Len(a) = 0 THEN TRUE
    ELSE IF a[1] # b[1] THEN a[1] < b[1]
    ELSE str_less(Tail(a), Tail(b))

(***************************************************************************)
(* 1. Constants: the common-PIN tables.                                    *)
(***************************************************************************)
Common4Literal == {
    <<49,50,51,52>>, <<57,56,55,54>>, <<49,49,49,49>>, <<50,50,50,50>>,
    <<51,51,51,51>>, <<52,52,52,52>>, <<53,53,53,53>>, <<54,54,54,54>>,
    <<55,55,55,55>>, <<56,56,56,56>>, <<57,57,57,57>>, <<48,48,48,48>>,
    <<49,49,50,50>>, <<49,50,49,50>>, <<50,53,56,48>>, <<49,57,57,48>>,
    <<49,57,57,49>>, <<49,57,57,50>>, <<49,57,57,51>>, <<49,57,57,52>>,
    <<49,57,57,53>>, <<49,57,57,54>>, <<49,57,57,55>>, <<49,57,57,56>>,
    <<49,57,57,57>>, <<50,48,48,48>>, <<50,48,48,49>>, <<50,48,48,50>>,
    <<50,48,48,51>>, <<50,48,48,52>>, <<50,48,48,53>> }

Common6Literal == {
    <<49,50,51,52,53,54>>, <<57,56,55,54,53,52>>, <<49,49,49,49,49,49>>,
    <<50,50,50,50,50,50>>, <<51,51,51,51,51,51>>, <<52,52,52,52,52,52>>,
    <<53,53,53,53,53,53>>, <<54,54,54,54,54,54>>, <<55,55,55,55,55,55>>,
    <<56,56,56,56,56,56>>, <<57,57,57,57,57,57>>, <<48,48,48,48,48,48>>,
    <<49,50,51,49,50,51>>, <<49,49,50,50,51,51>> }

(***************************************************************************)
(* 2. Core logic.                                                          *)
(***************************************************************************)
\* None where a date is expected.
NoDate == [year |-> 0, month |-> 0, day |-> 0]

\* Truth value of a date-or-None: every datetime.date is true, None is false.
date_truthy(d) == d # NoDate

generate_4_digit_dropped(day, month, year_yy, year_yyyy) ==
    { day \o month, month \o day, year_yyyy, day \o year_yy,
      month \o year_yy, year_yy \o month, day \o day, month \o month, year_yy \o year_yy }

\* The length-4 patterns, lines 70-73.
generate_4_digit(day, month, year_yy, year_yyyy) ==
    { day \o month, month \o day, year_yyyy, day \o year_yy, year_yy \o day,
      month \o year_yy, year_yy \o month, day \o day, month \o month, year_yy \o year_yy }

\* The length-6 patterns, lines 75-78.
generate_6_digit(day, month, year_yy) ==
    { day \o month \o year_yy, month \o day \o year_yy,
      year_yy \o month \o day, year_yy \o day \o month }

_generate_demographic_pins(d, len) ==
    IF ~date_truthy(d) THEN {}
    ELSE LET day == format_0d(d.day, 2)
             month == format_0d(d.month, 2)
             year_yy == format_0d(d.year % 100, 2)
             year_yyyy == format_0d(d.year, 4)
         IN  IF len = 4 THEN generate_4_digit(day, month, year_yy, year_yyyy)
             ELSE IF len = 6 THEN generate_6_digit(day, month, year_yy)
             ELSE {}

\* A Dict[str, date] is the sequence of its (key, value) items in insertion
\* order, keys distinct; is_none tells the argument None from the empty dict.
NoDemographics == [is_none |-> TRUE, items |-> << >>]

dict_of(items) == [is_none |-> FALSE, items |-> items]

\* `if demographics:`, line 96: None and the empty dict are false.
dict_truthy(d) == ~d.is_none /\ Len(d.items) > 0

dict_has(d, key) == \E i \in 1..Len(d.items) : d.items[i][1] = key

\* demographics[key], line 104, for a key the dict holds.
dict_getitem(d, key) ==
    d.items[CHOOSE i \in 1..Len(d.items) : d.items[i][1] = key][2]

\* demographics.get(key), line 103: None for a missing key.
dict_get(d, key) == IF dict_has(d, key) THEN dict_getitem(d, key) ELSE NoDate

\* The keys of demographic_map in the order the loop of line 102 visits them.
demographic_keys == << "dob_self", "dob_spouse", "anniversary" >>

demographic_map_swapped(key) ==
    CASE key = "dob_self" -> "DEMOGRAPHIC_DOB_SELF"
      [] key = "dob_spouse" -> "DEMOGRAPHIC_ANNIVERSARY"
      [] key = "anniversary" -> "DEMOGRAPHIC_DOB_SPOUSE"

\* demographic_map[key], lines 97-101.
demographic_map(key) ==
    CASE key = "dob_self" -> "DEMOGRAPHIC_DOB_SELF"
      [] key = "dob_spouse" -> "DEMOGRAPHIC_DOB_SPOUSE"
      [] key = "anniversary" -> "DEMOGRAPHIC_ANNIVERSARY"

\* The characters of each reason code, for the comparison sorted() makes.
reason_chars(code) ==
    CASE code = "COMMONLY_USED" ->
           <<67,79,77,77,79,78,76,89,95,85,83,69,68>>
      [] code = "DEMOGRAPHIC_DOB_SELF" ->
           <<68,69,77,79,71,82,65,80,72,73,67,95,68,79,66,95,83,69,76,70>>
      [] code = "DEMOGRAPHIC_DOB_SPOUSE" ->
           <<68,69,77,79,71,82,65,80,72,73,67,95,68,79,66,95,83,80,79,85,83,69>>
      [] code = "DEMOGRAPHIC_ANNIVERSARY" ->
           <<68,69,77,79,71,82,65,80,72,73,67,95,65,78,78,73,86,69,82,83,65,82,89>>

\* The order in which the code adds the reasons to the set (lines 93, 102-106).
insertion_order ==
    << "COMMONLY_USED", "DEMOGRAPHIC_DOB_SELF", "DEMOGRAPHIC_DOB_SPOUSE",
       "DEMOGRAPHIC_ANNIVERSARY" >>

sorted_unsorted(reasons) ==
    SelectSeq(insertion_order, LAMBDA code : code \in reasons)

\* sorted(list(reasons)), line 110: ascending by string comparison.
RECURSIVE sorted(_)
sorted(reasons) ==
    IF reasons = {} THEN << >>
    ELSE LET least == CHOOSE x \in reasons :
                          \A y \in reasons \ {x} : str_less(reason_chars(x), reason_chars(y))
         IN  << least >> \o sorted(reasons \ {least})

\* The guard of line 84: the pin is refused.
mpin_rejected(pin) == ~str_isdigit(pin) \/ Len(pin) \notin {4, 6}

\* `reasons: Set[str] = set()`, line 87: a fresh local set in every call.
reasons_init == {}

common_pins_always_4(pin_length) == COMMONLY_USED_4_DIGIT_PINS

\* The table chosen on line 91.
common_pins(pin_length) ==
    IF pin_length = 4 THEN COMMONLY_USED_4_DIGIT_PINS ELSE COMMONLY_USED_6_DIGIT_PINS

role_supplied_unguarded(d, key) == TRUE

\* `if demographics.get(key):`, line 103.
role_supplied(d, key) == date_truthy(dict_get(d, key))

\* The keys whose body (lines 104-106) the loop runs.
roles_checked(d) ==
    IF dict_truthy(d)
    THEN { demographic_keys[i] : i \in { j \in 1..Len(demographic_keys) :
                                           role_supplied(d, demographic_keys[j]) } }
    ELSE {}

\* Reason codes the loop of lines 102-106 adds.
demographic_reasons(pin, pin_length, d) ==
    { demographic_map(key) : key \in
        { k \in roles_checked(d) :
            pin \in _generate_demographic_pins(dict_getitem(d, k), pin_length) } }

strength_of_many(reasons) == IF Cardinality(reasons) > 1 THEN "WEAK" ELSE "STRONG"

\* `"WEAK" if reasons else "STRONG"`, line 109.
strength_of(reasons) == IF reasons # {} THEN "WEAK" ELSE "STRONG"

\* What a call did: status is "none" before any call, "returned", or the
\* name of the exception raised; a raising call has no strength and no reasons.
NoOutcome == [status |-> "none", strength |-> "", reasons |-> << >>]

raised(exception) == [status |-> exception, strength |-> "", reasons |-> << >>]

returned(strength, reasons) ==
    [status |-> "returned", strength |-> strength, reasons |-> reasons]

\* check_mpin_strength, lines 81-110.  demographics[key] on line 104 raises
\* KeyError when the loop body runs for a key the dict does not hold.
check_mpin_strength(pin, d) ==
    IF mpin_rejected(pin) THEN raised("ValueError")
    ELSE LET pin_length == Len(pin)
             common == IF pin \in common_pins(pin_length) THEN {"COMMONLY_USED"} ELSE {}
         IN  IF \E k \in roles_checked(d) : ~dict_has(d, k) THEN raised("KeyError")
             ELSE LET reasons == reasons_init \cup common
                                     \cup demographic_reasons(pin, pin_length, d)
                  IN  returned(strength_of(reasons), sorted(reasons))

(***************************************************************************)
(* The inputs tried.                                                       *)
(***************************************************************************)
\* 1992-08-15, 1994-03-03 and 2018-11-20 are the dates of the unit tests.
SampleDates == <<
    [year |-> 1992, month |-> 8, day |-> 15],
    [year |-> 1994, month |-> 3, day |-> 3],
    [year |-> 2018, month |-> 11, day |-> 20],
    [year |-> 2005, month |-> 12, day |-> 12],
    [year |-> 999, month |-> 1, day |-> 1] >>

Dates == { SampleDates[i] : i \in 1..NumDates }

\* Every dict over the three role keys, in every insertion order, with a
\* date or None for each key it holds; and no dict at all.
ItemSeqs ==
    UNION { { s \in [1..n -> {"dob_self", "dob_spouse", "anniversary"} \X (Dates \cup {NoDate})] :
                \A i, j \in 1..n : i # j => s[i][1] # s[j][1] } : n \in 0..3 }

Demographics == {NoDemographics} \cup { dict_of(s) : s \in ItemSeqs }

\* "", "1", "11", ..., up to MaxPinLen characters.
RepeatedOnes == { [i \in 1..n |-> 49] : n \in 0..MaxPinLen }

Pins == RepeatedOnes \cup {
    <<49,50,51,52>>,              \* "1234"   common
    <<49,57,57,50>>,              \* "1992"   common, yyyy of 1992-08-15
    <<49,57,57,52>>,              \* "1994"   common, yyyy of 1994-03-03
    <<50,48,49,56>>,              \* "2018"   yyyy of 2018-11-20
    <<49,53,48,56>>,              \* "1508"   dd+mm of 1992-08-15
    <<57,50,49,53>>,              \* "9215"   yy+dd of 1992-08-15
    <<48,51,48,51>>,              \* "0303"   dd+mm of 1994-03-03
    <<50,48,49,49>>,              \* "2011"   dd+mm of 2018-11-20
    <<49,56,49,49>>,              \* "1811"   yy+mm of 2018-11-20
    <<49,50,49,50>>,              \* "1212"   common, dd+mm of 2005-12-12
    <<53,56,51,57>>,              \* "5839"
    <<49,50,51,52,53,54>>,        \* "123456" common
    <<49,53,48,56,57,50>>,        \* "150892" dd+mm+yy of 1992-08-15
    <<57,50,48,56,49,53>>,        \* "920815" yy+mm+dd of 1992-08-15
    <<48,51,48,51,57,52>>,        \* "030394" dd+mm+yy of 1994-03-03
    <<50,48,49,49,49,56>>,        \* "201118" dd+mm+yy of 2018-11-20
    <<49,57,57,50,48,56>>,        \* "199208" yyyy+mm of 1992-08-15
    <<55,52,50,49,57,56>>,        \* "742198"
    <<49,50,51>>,                 \* "123"
    <<49,50,51,52,53>>,           \* "12345"
    <<97,98,99,100,101,102>>,     \* "abcdef"
    <<49,50,97,52>>,              \* "12a4"
    <<32,49,50,51,52>>,           \* " 1234"
    <<1633,1634,1635,1636>>,      \* ARABIC-INDIC DIGIT ONE..FOUR
    <<49,57,57,178>>,             \* "199" + SUPERSCRIPT TWO
    <<65297,65298,65299,65300,65301,65302>> } \* FULLWIDTH DIGIT ONE..SIX

(***************************************************************************)
(* Callers of the core.                                                    *)
(***************************************************************************)
\* others: a call with other arguments was made after the recorded one.
NoCall == [mpin |-> << >>, demographics |-> NoDemographics, outcome |-> NoOutcome,
           others |-> FALSE]

\* The record, once a further call with arguments (pin, d) is made.
noted(pin, d) ==
    IF first = NoCall \/ (first.mpin = pin /\ first.demographics = d)
    THEN first
    ELSE [first EXCEPT !.others = TRUE]

Init ==
    /\ COMMONLY_USED_4_DIGIT_PINS = Common4Literal
    /\ COMMONLY_USED_6_DIGIT_PINS = Common6Literal
    /\ mpin = << >>
    /\ demographics = NoDemographics
    /\ outcome = NoOutcome
    /\ first = NoCall
    /\ date_obj = NoDate
    /\ length = 0
    /\ pins = {}
    /\ pc = "mpin"
    /\ loop_mpin = << >>
    /\ user_demographics = << >>
    /\ last_input = << >>
    /\ printed = << "--- Interactive MPIN Strength Checker ---",
                    "Enter 'quit' at any time to exit." >>

\* A call check_mpin_strength(pin, d): it returns or raises, and writes
\* neither table.
Call(pin, d) ==
    /\ mpin' = pin
    /\ demographics' = d
    /\ outcome' = check_mpin_strength(pin, d)
    /\ first' = noted(pin, d)
    /\ UNCHANGED << table_vars, gen_vars, loop_vars >>

\* The caller keeps the arguments and the outcome of the call just made,
\* to compare a later call with.
Remember ==
    /\ outcome.status # "none"
    /\ first = NoCall
    /\ first' = [mpin |-> mpin, demographics |-> demographics, outcome |-> outcome,
                 others |-> FALSE]
    /\ UNCHANGED << table_vars, core_vars, gen_vars, loop_vars >>

\* One call of the core on any of the inputs, from the state in which
\* nothing was called yet.
CallOnce ==
    /\ outcome.status = "none"
    /\ \E pin \in Pins, d \in Demographics : Call(pin, d)

Next == CallOnce

Spec == Init /\ [][Next]_vars

(***************************************************************************)
(* The pattern generator called on its own.                                *)
(***************************************************************************)
\* datetime.date accepts years 1..9999 and the days the month has.
is_leap(year) == year % 4 = 0 /\ (year % 100 # 0 \/ year % 400 = 0)

days_in_month(year, month) ==
    IF month = 2 THEN (IF is_leap(year) THEN 29 ELSE 28)
    ELSE IF month \in {4, 6, 9, 11} THEN 30
    ELSE 31

date_valid(year, month, day) ==
    /\ year \in 1..9999
    /\ month \in 1..12
    /\ day \in 1..days_in_month(year, month)

GenYears == {1, 99, 100, 1992, 2000, 2018, 9999}

CalendarDates ==
    { d \in [year : GenYears, month : 1..12, day : 1..31] :
        date_valid(d.year, d.month, d.day) }

Generate(d, len) ==
    /\ date_obj' = d
    /\ length' = len
    /\ pins' = _generate_demographic_pins(d, len)
    /\ UNCHANGED << table_vars, core_vars, first, loop_vars >>

\* One call of the generator on a calendar date or None, from the state in
\* which nothing was called yet.
GenerateOnce ==
    /\ length = 0
    /\ \E d \in CalendarDates \cup {NoDate}, len \in {4, 6} : Generate(d, len)

NextGen == GenerateOnce

SpecGen == Init /\ [][NextGen]_vars

(***************************************************************************)
(* A caller that calls the core again and again and keeps one earlier      *)
(* call to compare with.                                                   *)
(***************************************************************************)
RepeatPins == {
    <<49,57,57,50>>,              \* "1992"
    <<49,53,48,56>>,              \* "1508"
    <<53,56,51,57>>,              \* "5839"
    <<49,53,48,56,57,50>>,        \* "150892"
    <<49,50,51>>,                 \* "123"
    <<1633,1634,1635,1636>> }     \* ARABIC-INDIC DIGIT ONE..FOUR

RepeatDemographics == {
    NoDemographics,
    dict_of(<< >>),
    dict_of(<< <<"dob_self", SampleDates[1]>> >>),
    dict_of(<< <<"dob_self", NoDate>> >>),
    dict_of(<< <<"dob_spouse", SampleDates[1]>> >>),
    dict_of(<< <<"anniversary", SampleDates[1]>>, <<"dob_self", SampleDates[1]>> >>),
    dict_of(<< <<"dob_self", SampleDates[1]>>, <<"dob_spouse", SampleDates[2]>>,
               <<"anniversary", SampleDates[3]>> >>) }

CallAgain == \E pin \in RepeatPins, d \in RepeatDemographics : Call(pin, d)

NextRepeat == CallAgain \/ Remember

SpecRepeat == Init /\ [][NextRepeat]_vars

(***************************************************************************)
(* 4. run_interactive_checker.                                             *)
(***************************************************************************)
\* \d of a str pattern: any Unicode decimal digit.
re_digit(c) == c \in DecimalChars

\* (?P<m>1[0-2]|0[1-9]|[1-9]), the directive %m.
month_matches(t) ==
    \/ Len(t) = 2 /\ t[1] = 49 /\ t[2] \in 48..50
    \/ Len(t) = 2 /\ t[1] = 48 /\ t[2] \in 49..57
    \/ Len(t) = 1 /\ t[1] \in 49..57

\* (?P<d>3[0-1]|[1-2]\d|0[1-9]|[1-9]| [1-9]), the directive %d.
day_matches(t) ==
    \/ Len(t) = 2 /\ t[1] = 51 /\ t[2] \in 48..49
    \/ Len(t) = 2 /\ t[1] \in 49..50 /\ re_digit(t[2])
    \/ Len(t) = 2 /\ t[1] = 48 /\ t[2] \in 49..57
    \/ Len(t) = 1 /\ t[1] \in 49..57
    \/ Len(t) = 2 /\ t[1] = 32 /\ t[2] \in 49..57

\* int(t) for a matched group: surrounding blanks are skipped.
RECURSIVE str_int(_)
str_int(t) ==
    IF Len(t) = 0 THEN 0
    ELSE IF char_isspace(t[Len(t)]) THEN str_int(SubSeq(t, 1, Len(t) - 1))
    ELSE 10 * str_int(SubSeq(t, 1, Len(t) - 1)) + char_value(t[Len(t)])

\* The ways the whole of s matches %Y-%m-%d (at most one): the lengths of
\* the month group for which year, "-", month, "-", day use up s.
strptime_splits(s) ==
    { k \in 1..2 :
        /\ Len(s) >= 7 + k
        /\ \A i \in 1..4 : re_digit(s[i])
        /\ s[5] = 45
        /\ month_matches(SubSeq(s, 6, 5 + k))
        /\ s[6 + k] = 45
        /\ day_matches(SubSeq(s, 7 + k, Len(s))) }

\* datetime.datetime.strptime(s, "%Y-%m-%d").date(), line 219: ok is FALSE
\* where it raises ValueError (no match, text left over, no such date).
strptime_date(s) ==
    IF strptime_splits(s) = {} THEN [ok |-> FALSE, date |-> NoDate]
    ELSE LET k == CHOOSE k \in strptime_splits(s) : TRUE
             year == str_int(SubSeq(s, 1, 4))
             month == str_int(SubSeq(s, 6, 5 + k))
             day == str_int(SubSeq(s, 7 + k, Len(s)))
         IN  IF date_valid(year, month, day)
             THEN [ok |-> TRUE, date |-> [year |-> year, month |-> month, day |-> day]]
             ELSE [ok |-> FALSE, date |-> NoDate]

\* "quit"
QUIT == <<113,117,105,116>>

loop_rejected_no_length_check(pin) == ~str_isdigit(pin)

\* The loop's own check, line 230.
loop_rejected(pin) == ~str_isdigit(pin) \/ Len(pin) \notin {4, 6}

MpinLines == {
    << >>,                        \* ""
    QUIT,
    <<81,85,73,84>>,              \* "QUIT"
    <<32,113,117,105,116,32>>,    \* " quit "
    <<49,57,57,50>>,              \* "1992"
    <<32,49,53,48,56,32>>,        \* " 1508 "
    <<49,53,48,56,57,50>>,        \* "150892"
    <<1633,1634,1635,1636>>,      \* ARABIC-INDIC DIGIT ONE..FOUR
    <<49,50,51>>,                 \* "123"
    <<49,50,51,52,53>>,           \* "12345"
    <<49,50,32,51,52>>,           \* "12 34"
    <<97,98,99,100,101,102>> }    \* "abcdef"

DateLines == {
    << >>,                                        \* ""
    QUIT,
    <<49,57,57,50,45,48,56,45,49,53>>,            \* "1992-08-15"
    <<49,57,57,50,45,56,45,49,53>>,               \* "1992-8-15"
    <<1633,1641,1641,1634,45,48,56,45,49,53>>,    \* "1992-08-15", year in ARABIC-INDIC digits
    <<49,57,57,52,45,48,51,45,48,51>>,            \* "1994-03-03"
    <<50,48,48,49,45,48,50,45,51,48>>,            \* "2001-02-30"
    <<48,48,48,48,45,48,49,45,48,49>>,            \* "0000-01-01"
    <<49,57,57,50,45,48,56,45,49,53,32>>,         \* "1992-08-15 "
    <<49,57,57,50,48,56,49,53>> }                 \* "19920815"

\* The prompt that follows a date prompt; after the last one the loop calls
\* the core and goes back to the MPIN prompt.
next_prompt(prompt) ==
    CASE prompt = "dob_self" -> "dob_spouse"
      [] prompt = "dob_spouse" -> "anniversary"
      [] prompt = "anniversary" -> "mpin"

\* What lines 242-246 print for a result.
result_lines(result) ==
    << "--- Analysis Result ---", "PIN, Strength" >>
    \o (IF Len(result.reasons) > 0 THEN << "Reasons" >> ELSE << >>)
    \o << "-----------------------" >>

\* A line typed at the MPIN prompt: lines 227-234.
EnterMpin(line) ==
    /\ pc = "mpin"
    /\ last_input' = line
    /\ loop_mpin' = str_strip(line)
    /\ IF str_lower(loop_mpin') = QUIT
       THEN /\ pc' = "done"
            /\ printed' = << >>
            /\ UNCHANGED user_demographics
       ELSE IF loop_rejected(loop_mpin')
       THEN /\ pc' = "mpin"
            /\ printed' = << "Invalid input. Please enter a 4 or 6-digit number." >>
            /\ UNCHANGED user_demographics
       ELSE /\ pc' = "dob_self"
            /\ printed' = << "Please provide dates (or press Enter to skip)." >>
            /\ user_demographics' = << >>
    /\ UNCHANGED << table_vars, core_vars, first, gen_vars >>

\* A line typed at one of the three date prompts: get_date_from_user, lines
\* 215-221, and, once the third date is read, lines 235-246.
EnterDate(line) ==
    /\ pc \in {"dob_self", "dob_spouse", "anniversary"}
    /\ last_input' = line
    /\ UNCHANGED << table_vars, first, gen_vars, loop_mpin >>
    /\ LET parsed == strptime_date(line)
           value == IF Len(line) = 0 THEN NoDate ELSE parsed.date
       IN  IF Len(line) > 0 /\ ~parsed.ok
           THEN /\ printed' = << "Invalid format. Please use YYYY-MM-DD or press Enter to skip." >>
                /\ UNCHANGED << pc, user_demographics, core_vars >>
           ELSE /\ user_demographics' = Append(user_demographics, << pc, value >>)
                /\ IF pc # "anniversary"
                   THEN /\ pc' = next_prompt(pc)
                        /\ printed' = << >>
                        /\ UNCHANGED core_vars
                   ELSE /\ mpin' = loop_mpin
                        /\ demographics' = dict_of(user_demographics')
                        /\ outcome' = check_mpin_strength(mpin', demographics')
                        /\ IF outcome'.status = "returned"
                           THEN /\ pc' = "mpin"
                                /\ printed' = result_lines(outcome')
                           ELSE /\ pc' = "raised"
                                /\ printed' = << "Traceback" >>

NextLoop ==
    \/ \E line \in MpinLines : EnterMpin(line)
    \/ \E line \in DateLines : EnterDate(line)

SpecLoop == Init /\ [][NextLoop]_vars

(***************************************************************************)
(* Properties.                                                             *)
(***************************************************************************)
\* A pin as the specification defines it: 4 or 6 characters, each one of
\* the decimal digits 0-9.
decimal_pin(pin) == Len(pin) \in {4, 6} /\ \A i \in 1..Len(pin) : pin[i] \in 48..57

called == outcome.status # "none"

reason_set == { outcome.reasons[i] : i \in 1..Len(outcome.reasons) }

\* The date supplied for a role, as a set: empty when there is no dict, the
\* dict lacks the key, or the value is None.
supplied(key) ==
    { demographics.items[i][2] : i \in
        { j \in 1..Len(demographics.items) :
            demographics.items[j][1] = key /\ demographics.items[j][2] # NoDate } }

\* C1: a call raises ValueError, with no strength and no reasons, exactly
\* when the pin is not 4 or 6 decimal digits 0-9; every pin of 4 or 6
\* decimal digits returns a result, whatever the demographics.
C1_RejectsExactlyNonDecimalPins ==
    called =>
        /\ decimal_pin(mpin) => outcome.status = "returned"
        /\ ~decimal_pin(mpin) => outcome = raised("ValueError")

\* C2: a returned result holds COMMONLY_USED exactly when the pin is in the
\* common-PIN table of the pin's own length, whatever dates are supplied.
C2_CommonlyUsedIffInTable ==
    outcome.status = "returned" =>
        ("COMMONLY_USED" \in reason_set <=>
            \/ Len(mpin) = 4 /\ mpin \in Common4Literal
            \/ Len(mpin) = 6 /\ mpin \in Common6Literal)

\* A 6-digit pin of the 6-digit table, checked with dates supplied.
C2_Witness ==
    /\ outcome.status = "returned"
    /\ Len(mpin) = 6
    /\ "COMMONLY_USED" \in reason_set
    /\ supplied("dob_self") # {}

\* C3: for each role, a returned result holds the role's own code exactly
\* when a date is supplied for that role and the pin is one of the patterns
\* generated from that date for the pin's length.
C3_RoleCodeIffPatternOfRole ==
    outcome.status = "returned" =>
        /\ "DEMOGRAPHIC_DOB_SELF" \in reason_set <=>
             \E d \in supplied("dob_self") :
                 mpin \in _generate_demographic_pins(d, Len(mpin))
        /\ "DEMOGRAPHIC_DOB_SPOUSE" \in reason_set <=>
             \E d \in supplied("dob_spouse") :
                 mpin \in _generate_demographic_pins(d, Len(mpin))
        /\ "DEMOGRAPHIC_ANNIVERSARY" \in reason_set <=>
             \E d \in supplied("anniversary") :
                 mpin \in _generate_demographic_pins(d, Len(mpin))

\* The spouse's date matches and the pin is common, while the dates supplied
\* for the two other roles do not match: two codes accumulate, no other
\* role's code is added.
C3_Witness ==
    /\ outcome.reasons = << "COMMONLY_USED", "DEMOGRAPHIC_DOB_SPOUSE" >>
    /\ supplied("dob_self") # {}
    /\ supplied("anniversary") # {}

\* C4: a returned result is STRONG exactly when its reasons are empty and
\* WEAK exactly when they are not; there is no third strength.
C4_StrongIffNoReasons ==
    outcome.status = "returned" =>
        /\ outcome.strength \in {"STRONG", "WEAK"}
        /\ outcome.strength = "STRONG" <=> outcome.reasons = << >>
        /\ outcome.strength = "WEAK" <=> outcome.reasons # << >>

\* A result with exactly one reason.
C4_Witness ==
    /\ outcome.status = "returned"
    /\ outcome.strength = "WEAK"
    /\ Len(outcome.reasons) = 1

\* dd, mm, yy (two digits) and yyyy (four digits) of the generator's date,
\* written out digit by digit.
two_digits(n) == << 48 + ((n \div 10) % 10), 48 + (n % 10) >>

four_digits(n) ==
    << 48 + ((n \div 1000) % 10), 48 + ((n \div 100) % 10),
       48 + ((n \div 10) % 10), 48 + (n % 10) >>

\* C5: for a calendar date, length 4 gives exactly the ten listed strings
\* and length 6 exactly the four listed strings, equal strings collapsing.
C5_ExactPatternSets ==
    (date_obj # NoDate /\ length \in {4, 6}) =>
        LET dd == two_digits(date_obj.day)
            mm == two_digits(date_obj.month)
            yy == two_digits(date_obj.year % 100)
            yyyy == four_digits(date_obj.year)
        IN  /\ length = 4 =>
                /\ pins = { dd \o mm, mm \o dd, yyyy, dd \o yy, yy \o dd, mm \o yy,
                            yy \o mm, dd \o dd, mm \o mm, yy \o yy }
                /\ Cardinality(pins) <= 10
            /\ length = 6 =>
                /\ pins = { dd \o mm \o yy, mm \o dd \o yy, yy \o mm \o dd,
                            yy \o dd \o mm }
                /\ Cardinality(pins) <= 4

\* A date whose ten length-4 patterns are all different.
C5_Witness == length = 4 /\ date_obj # NoDate /\ Cardinality(pins) = 10

\* The place of each tag in the ascending lexical order of the tag names.
lexical_rank(code) ==
    CASE code = "COMMONLY_USED" -> 1
      [] code = "DEMOGRAPHIC_ANNIVERSARY" -> 2
      [] code = "DEMOGRAPHIC_DOB_SELF" -> 3
      [] code = "DEMOGRAPHIC_DOB_SPOUSE" -> 4

\* C6: the reasons of a returned result are tags of the four-member
\* enumeration, none twice, in ascending lexical order of the tag names.
C6_ReasonsSortedDistinct ==
    outcome.status = "returned" =>
        /\ reason_set \subseteq { "COMMONLY_USED", "DEMOGRAPHIC_DOB_SELF",
                                  "DEMOGRAPHIC_DOB_SPOUSE", "DEMOGRAPHIC_ANNIVERSARY" }
        /\ \A i, j \in 1..Len(outcome.reasons) :
               i < j => lexical_rank(outcome.reasons[i]) < lexical_rank(outcome.reasons[j])

\* All four reasons, from a dict whose keys are not in the order the loop
\* visits the roles.
C6_Witness ==
    /\ outcome.status = "returned"
    /\ Len(outcome.reasons) = 4
    /\ demographics.items[1][1] = "dob_spouse"

\* C7: a pin of 4 or 6 decimal digits always returns, whatever is missing
\* from the demographics; a role with no date contributes no reason, and
\* with no date at all the reasons are within {COMMONLY_USED}.
C7_MissingDemographicsNoSignal ==
    (called /\ decimal_pin(mpin)) =>
        /\ outcome.status = "returned"
        /\ supplied("dob_self") = {} => "DEMOGRAPHIC_DOB_SELF" \notin reason_set
        /\ supplied("dob_spouse") = {} => "DEMOGRAPHIC_DOB_SPOUSE" \notin reason_set
        /\ supplied("anniversary") = {} => "DEMOGRAPHIC_ANNIVERSARY" \notin reason_set
        /\ (supplied("dob_self") \cup supplied("dob_spouse") \cup supplied("anniversary")) = {}
               => reason_set \subseteq {"COMMONLY_USED"}

\* A dict that lacks one key, holds None for another and a matching date
\* for the third.
C7_Witness ==
    /\ outcome.reasons = << "DEMOGRAPHIC_DOB_SELF" >>
    /\ Len(demographics.items) = 2
    /\ \E i \in 1..2 : demographics.items[i] = << "anniversary", NoDate >>

\* C8 (repeated calls give the same outcome, tables and dict untouched) is
\* not stated as a property: check_mpin_strength is an operator of its two
\* arguments and the two tables, and no statement of the code writes a table
\* or the dict, so every action leaves them unchanged.  Equal outcomes for
\* equal arguments would then compare the operator with itself.

\* C9: whichever prompt is waiting, the input "quit" ends the session.
C9_QuitExitsAtAnyPrompt == last_input = QUIT => pc = "done"

\* C10: the loop calls the core only with an MPIN that passed its own
\* digit-and-length check, so the core never raises inside the loop; and an
\* entry at the MPIN prompt that fails the check prints the error and
\* leaves the loop at the MPIN prompt, with no date asked and no call made.
C10_LoopNeverRaises ==
    /\ [](/\ pc # "raised"
          /\ outcome.status \in {"none", "returned"}
          /\ called => (str_isdigit(mpin) /\ Len(mpin) \in {4, 6}))
    /\ [][(/\ pc = "mpin"
           /\ str_lower(str_strip(last_input')) # QUIT
           /\ ~(str_isdigit(str_strip(last_input')) /\ Len(str_strip(last_input')) \in {4, 6}))
          => (/\ pc' = "mpin"
              /\ printed' = << "Invalid input. Please enter a 4 or 6-digit number." >>
              /\ UNCHANGED << core_vars, user_demographics >>)]_vars

\* An invalid entry made after a round that produced a result.
C10_Witness ==
    /\ pc = "mpin"
    /\ printed = << "Invalid input. Please enter a 4 or 6-digit number." >>
    /\ outcome.status = "returned"
    /\ outcome.strength = "WEAK"

\* C11: for a calendar date and length 4 or 6, every generated string has
\* exactly that many characters, each a decimal digit 0-9; the entries of
\* the 4-digit table have 4 characters and those of the 6-digit table 6, so
\* a pin can only equal patterns and table entries of its own length.
C11_PatternsHaveRequestedLength ==
    /\ (date_obj # NoDate /\ length \in {4, 6}) =>
           \A p \in pins :
               /\ Len(p) = length
               /\ \A i \in 1..Len(p) : p[i] \in 48..57
    /\ \A p \in COMMONLY_USED_4_DIGIT_PINS : Len(p) = 4
    /\ \A p \in COMMONLY_USED_6_DIGIT_PINS : Len(p) = 6

\* Patterns of a date whose day, month and year all need zero padding.
C11_Witness ==
    /\ length = 6
    /\ date_obj.year = 1
    /\ date_obj.month = 2
    /\ date_obj.day = 3
    /\ Cardinality(pins) = 4

====
